---------------------------- MODULE Spec2Model ----------------------------
(***************************************************************************)
(* A model of three parts of tiny-skia:                                    *)
(*   - line_clipper::clip          (src/src/line_clipper.rs)               *)
(*   - IntSize::from_wh            (src/src/int_size.rs)                   *)
(*   - Gradient::new and Gradient::append_stages                           *)
(*                                 (src/src/shaders/gradient.rs)           *)
(*                                                                         *)
(* Numbers.  f32/f64 coordinates are fixed-point integers: one unit is     *)
(* half of SCALAR_NEARLY_ZERO (2^-13), so every model value is an exactly  *)
(* representable f32.  A division is rounded to the nearest unit (RoundDiv)*)
(* which, like IEEE rounding, is monotone.  NaN and infinities are not     *)
(* modelled.  Arrays keep the 0-based indices of the source: an array of   *)
(* n elements is a function with domain 0..n-1.                            *)
(***************************************************************************)
EXTENDS Integers, Sequences, FiniteSets, TLC

VARIABLES
    pc,                     \* which call is in progress / has returned
    \* line_clipper::clip
    src,                    \* the input segment, src[0]..src[1]
    clip_rect,              \* the clip rectangle (the parameter `clip`)
    can_cull_to_the_right,  \* the flag
    tmp,                    \* the y-chopped segment (local `tmp` at line 53)
    reversed,               \* the local `reverse` at line 114 (FALSE if not reached)
    points,                 \* the returned slice &points[0..line_count+1]
    \* IntSize::from_wh
    width, height,          \* the arguments
    size,                   \* the returned Option<IntSize>
    \* Gradient
    stops,                  \* Gradient::new: the argument `points`
    tile_mode,              \* Gradient::new: the argument `tile_mode`
    gradient,               \* the constructed Gradient
    push_stages,            \* append_stages: what the callback pushes
    points_to_unit,         \* the stages push_transform emits for the transform
    pipeline,               \* append_stages: rec.pipeline at return
    ctx,                    \* append_stages: the context it pushed
    asserts_hold            \* every debug_assert evaluated so far held

clipVars == <<src, clip_rect, can_cull_to_the_right, tmp, reversed, points>>
sizeVars == <<width, height, size>>
gradVars == <<stops, tile_mode, gradient, push_stages, points_to_unit,
              pipeline, ctx, asserts_hold>>
vars == <<pc, clipVars, sizeVars, gradVars>>

-----------------------------------------------------------------------------
(* Bounds *)

\* Coordinates of the input segment range over 0..MaxCoord; the rectangle's
\* edges over 1..MaxCoord-1, so that points exist on every side of it.
MaxCoord == 5

\* IntSize::from_wh is called with widths and heights in 0..MaxLen.
MaxLen == 9

\* Gradient::new is called with 2..MaxStops stops.
MaxStops == 3

\* Gradient::new is also called with evenly spaced lists of LongStops - 2 ..
\* LongStops stops, enough to fill more than 16 entries of a GradientCtx.
LongStops == 16

-----------------------------------------------------------------------------
(* scalar helpers *)

\* SCALAR_NEARLY_ZERO (1/4096) in model units of 2^-13.
SCALAR_NEARLY_ZERO == 2

Abs(a) == IF a < 0 THEN -a ELSE a

\* a / b rounded to the nearest unit (halves upwards); b # 0.
RoundDiv(a, b) ==
    IF b > 0 THEN (2 * a + b) \div (2 * b)
             ELSE (2 * (-a) + (-b)) \div (2 * (-b))

\* Scalar::is_nearly_zero
is_nearly_zero(a) == Abs(a) <= SCALAR_NEARLY_ZERO

\* Scalar::ave: (a + b) * 0.5, narrowed to the grid
ave(a, b) == RoundDiv(a + b, 2)

Point(px, py) == [x |-> px, y |-> py]

\* Option<T>: None, or Some(v)
None == << >>
Some(v) == <<v>>
Unwrap(o) == o[1]

\* The empty slice &[]
EmptySlice == << >>

NumPoints(ps) == Cardinality(DOMAIN ps)

-----------------------------------------------------------------------------
(* line_clipper.rs *)

MAX_POINTS == 4

pin_unsorted_f32(value, limit0, limit1) ==
    LET lo == IF limit1 < limit0 THEN limit1 ELSE limit0
        hi == IF limit1 < limit0 THEN limit0 ELSE limit1
    IN  IF value < lo THEN lo
        ELSE IF value > hi THEN hi
        ELSE value

pin_unsorted_f64(value, limit0, limit1) ==
    LET lo == IF limit1 < limit0 THEN limit1 ELSE limit0
        hi == IF limit1 < limit0 THEN limit0 ELSE limit1
    IN  IF value < lo THEN lo
        ELSE IF value > hi THEN hi
        ELSE value

is_between_unsorted(value, limit0, limit1) ==
    IF limit0 < limit1
    THEN limit0 <= value /\ value <= limit1
    ELSE limit1 <= value /\ value <= limit0

\* X coordinate of the intersection of s with the horizontal line at y.
sect_with_horizontal(s, y) ==
    LET dy == s[1].y - s[0].y
    IN  IF is_nearly_zero(dy)
        THEN ave(s[0].x, s[1].x)
        ELSE pin_unsorted_f64(
                 s[0].x + RoundDiv((y - s[0].y) * (s[1].x - s[0].x), s[1].y - s[0].y),
                 s[0].x, s[1].x)

\* Y coordinate of the intersection of s with the vertical line at x.
sect_with_vertical(s, x) ==
    LET dx == s[1].x - s[0].x
    IN  IF is_nearly_zero(dx)
        THEN ave(s[0].y, s[1].y)
        ELSE s[0].y + RoundDiv((x - s[0].x) * (s[1].y - s[0].y), s[1].x - s[0].x)

sect_clamp_with_vertical(s, x) ==
    pin_unsorted_f32(sect_with_vertical(s, x), s[0].y, s[1].y)

\* line 25: (index0, index1) sorted by y
YOrder(s) == IF s[0].y < s[1].y THEN <<0, 1>> ELSE <<1, 0>>

\* Mutant of XOrder: `reverse` is set from the order of the endpoints in y.
XOrder_ReverseByY(s) ==
    IF s[0].x < s[1].x
    THEN <<0, 1, s[0].y > s[1].y>>
    ELSE <<1, 0, s[0].y > s[1].y>>

\* lines 61-69: (index0, index1, reverse) sorted by x
XOrder(s) == IF s[0].x < s[1].x THEN <<0, 1, FALSE>> ELSE <<1, 0, TRUE>>

\* Mutant of RejectedInY: strict comparisons, so a segment that only touches
\* the top or bottom edge is not rejected.
RejectedInY_Strict(s, r) ==
    LET index0 == YOrder(s)[1]
        index1 == YOrder(s)[2]
    IN  \/ s[index1].y < r.top
        \/ s[index0].y > r.bottom

\* lines 29-37: completely clipped out in Y (above or below)
RejectedInY(s, r) ==
    LET index0 == YOrder(s)[1]
        index1 == YOrder(s)[2]
    IN  \/ s[index1].y <= r.top
        \/ s[index0].y >= r.bottom

\* Mutant of ChopY: the chop at the bottom edge is left out.
ChopY_NoBottomChop(s, r) ==
    LET index0 == YOrder(s)[1]
    IN  IF s[index0].y < r.top
        THEN [s EXCEPT ![index0] = Point(sect_with_horizontal(s, r.top), r.top)]
        ELSE s

\* lines 41-52: chop in Y to produce a single segment, tmp[0..1]
ChopY(s, r) ==
    LET index0 == YOrder(s)[1]
        index1 == YOrder(s)[2]
        t1 == IF s[index0].y < r.top
              THEN [s EXCEPT ![index0] = Point(sect_with_horizontal(s, r.top), r.top)]
              ELSE s
    IN  IF t1[index1].y > r.bottom
        THEN [t1 EXCEPT ![index1] = Point(sect_with_horizontal(s, r.bottom), r.bottom)]
        ELSE t1

\* Mutant of PinToEdge: `reverse = false` is left out.
PinToEdge_KeepReverse(t, x, reverse) ==
    [culled |-> FALSE,
     result |-> [i \in 0..1 |-> Point(x, t[i].y)],
     line_count |-> 1,
     reverse |-> reverse]

\* lines 73-76 and 83-86: both ends of tmp moved onto the vertical line at x,
\* and `reverse` (set from the x order at lines 61-69) reset to false
PinToEdge(t, x, reverse) ==
    [culled |-> FALSE,
     result |-> [i \in 0..1 |-> Point(x, t[i].y)],
     line_count |-> 1,
     reverse |-> FALSE]

\* lines 88-110: the segment straddles the clip in X: 1..3 segments, stored
\* from the end with the smaller x (index0) to the end with the larger x.
ChopStraddling(s, t, r) ==
    LET index0 == XOrder(s)[1]
        index1 == XOrder(s)[2]
        zero == [i \in 0..(MAX_POINTS - 1) |-> Point(0, 0)]
        clipLeft == t[index0].x < r.left
        rs1 == IF clipLeft
               THEN [zero EXCEPT ![0] = Point(r.left, t[index0].y),
                                 ![1] = Point(r.left, sect_clamp_with_vertical(t, r.left))]
               ELSE [zero EXCEPT ![0] = t[index0]]
        offset1 == IF clipLeft THEN 2 ELSE 1
        clipRight == t[index1].x > r.right
        rs2 == IF clipRight
               THEN [rs1 EXCEPT ![offset1] = Point(r.right, sect_clamp_with_vertical(t, r.right)),
                                ![offset1 + 1] = Point(r.right, t[index1].y)]
               ELSE [rs1 EXCEPT ![offset1] = t[index1]]
        offset2 == IF clipRight THEN offset1 + 1 ELSE offset1
    IN  [culled |-> FALSE,
         result |-> rs2,
         line_count |-> offset2,
         reverse |-> XOrder(s)[3]]

\* lines 71-111: chop tmp into 1..3 segments wholly within the clip in X
ChopX(s, t, r, cull) ==
    LET index0 == XOrder(s)[1]
        index1 == XOrder(s)[2]
    IN  IF t[index1].x <= r.left
        THEN PinToEdge(t, r.left, XOrder(s)[3])
        ELSE IF t[index0].x >= r.right
        THEN IF cull
             THEN [culled |-> TRUE, result |-> EmptySlice,
                   line_count |-> 0, reverse |-> FALSE]
             ELSE PinToEdge(t, r.right, XOrder(s)[3])
        ELSE ChopStraddling(s, t, r)

\* Mutant of CopyOut: the points are never copied in reverse order.
CopyOut_NeverReverse(result, line_count, reverse) ==
    [i \in 0..line_count |-> result[i]]

\* lines 113-124: copy the results into the caller's points, reversed or not
CopyOut(result, line_count, reverse) ==
    [i \in 0..line_count |->
        IF reverse THEN result[line_count - i] ELSE result[i]]

\* The value of `reverse` when the copy at line 114 tests it; FALSE when the
\* call returns before that line
ReverseAtCopy(s, r, cull) ==
    IF RejectedInY(s, r)
    THEN FALSE
    ELSE ChopX(s, ChopY(s, r), r, cull).reverse

\* line_clipper::clip: the returned slice
clip(s, r, cull) ==
    IF RejectedInY(s, r)
    THEN EmptySlice
    ELSE LET cx == ChopX(s, ChopY(s, r), r, cull)
         IN  IF cx.culled
             THEN EmptySlice
             ELSE CopyOut(cx.result, cx.line_count, cx.reverse)

-----------------------------------------------------------------------------
(* The clipper as a state machine: a call with arbitrary arguments, then   *)
(* its return.                                                             *)


\* The values of the variables of the parts that a specification leaves idle
ClipIdle ==
    /\ src = << >> /\ clip_rect = None /\ can_cull_to_the_right = FALSE
    /\ tmp = << >> /\ reversed = FALSE /\ points = << >>
SizeIdle == width = 0 /\ height = 0 /\ size = None
GradIdle ==
    /\ stops = << >> /\ tile_mode = None /\ gradient = None
    /\ push_stages = None /\ points_to_unit = << >>
    /\ pipeline = << >> /\ ctx = None /\ asserts_hold = TRUE

Coords == 0..MaxCoord
Segments == [0..1 -> [x : Coords, y : Coords]]

\* Rect: a non-empty rectangle, left < right and top < bottom
Rects == {r \in [left : 1..(MaxCoord - 1), top : 1..(MaxCoord - 1),
                 right : 1..(MaxCoord - 1), bottom : 1..(MaxCoord - 1)] :
            r.left < r.right /\ r.top < r.bottom}

InitClip ==
    /\ pc = "clip_call"
    /\ src \in Segments
    /\ clip_rect \in Rects
    /\ can_cull_to_the_right \in BOOLEAN
    /\ tmp = src
    /\ reversed = FALSE
    /\ points = EmptySlice
    /\ SizeIdle /\ GradIdle

Clip ==
    /\ pc = "clip_call"
    /\ pc' = "clip_done"
    /\ tmp' = IF RejectedInY(src, clip_rect) THEN src ELSE ChopY(src, clip_rect)
    /\ reversed' = ReverseAtCopy(src, clip_rect, can_cull_to_the_right)
    /\ points' = clip(src, clip_rect, can_cull_to_the_right)
    /\ UNCHANGED <<src, clip_rect, can_cull_to_the_right, sizeVars, gradVars>>

NextClip == Clip

SpecClip == InitClip /\ [][NextClip]_vars

-----------------------------------------------------------------------------
(* Properties of line_clipper::clip *)

LastIndex(ps) == NumPoints(ps) - 1

FullyAbove(s, r) == s[0].y <= r.top /\ s[1].y <= r.top
FullyBelow(s, r) == s[0].y >= r.bottom /\ s[1].y >= r.bottom

InsideRect(p, r) ==
    /\ r.left <= p.x /\ p.x <= r.right
    /\ r.top <= p.y /\ p.y <= r.bottom

\* C1: every point that clip returns has its x within [clip.left, clip.right]
\* and its y within [clip.top, clip.bottom], for every segment, rectangle and
\* value of can_cull_to_the_right.
C1_OutputInsideClip ==
    pc = "clip_done" =>
        \A i \in DOMAIN points : InsideRect(points[i], clip_rect)

\* C1 witness: a segment that sticks out of the rectangle on all four sides
\* comes back as three segments.
C1_Witness ==
    /\ pc = "clip_done"
    /\ NumPoints(points) = 4
    /\ \E i \in 0..1 : src[i].y < clip_rect.top /\ src[i].x < clip_rect.left
    /\ \E i \in 0..1 : src[i].y > clip_rect.bottom /\ src[i].x > clip_rect.right

\* C2: clip preserves winding order: when the result is non-empty, the
\* y-direction from the first to the last returned point is the y-direction
\* from src[0] to src[1], the first point being on the src[0] side (its y is
\* src[0].y moved into [top, bottom]) and the last on the src[1] side.
C2_WindingPreserved ==
    (pc = "clip_done" /\ points # EmptySlice) =>
        LET first == points[0]
            last == points[LastIndex(points)]
        IN  /\ src[0].y <= src[1].y => first.y <= last.y
            /\ src[0].y >= src[1].y => first.y >= last.y
            /\ first.y = pin_unsorted_f32(src[0].y, clip_rect.top, clip_rect.bottom)
            /\ last.y = pin_unsorted_f32(src[1].y, clip_rect.top, clip_rect.bottom)

\* C2 witness: a segment given from larger x to smaller x (the sub-segments
\* are stored reversed) that straddles an edge and is not horizontal.
C2_Witness ==
    /\ pc = "clip_done"
    /\ NumPoints(points) >= 3
    /\ src[0].x > src[1].x
    /\ src[0].y < src[1].y
    /\ points[0].y < points[LastIndex(points)].y

\* C3: a segment fully above the rectangle (both y <= top) or fully below it
\* (both y >= bottom) yields an empty result, whatever its x coordinates and
\* the flag are.
C3_RejectedAboveBelow ==
    (pc = "clip_done"
        /\ (FullyAbove(src, clip_rect) \/ FullyBelow(src, clip_rect)))
    => points = EmptySlice

\* C3 witness: a segment that touches the top edge from above, with both x
\* inside the rectangle, has been clipped.
C3_Witness ==
    /\ pc = "clip_done"
    /\ FullyAbove(src, clip_rect)
    /\ \E i \in 0..1 : src[i].y = clip_rect.top
    /\ \A i \in 0..1 : clip_rect.left < src[i].x /\ src[i].x < clip_rect.right
    /\ points = EmptySlice

\* The single vertical segment at x with the y values of tmp, in input order
VerticalAt(x, t) == [i \in 0..1 |-> Point(x, t[i].y)]

\* C6: for a segment not rejected in y whose y-clipped part tmp lies wholly
\* to the left (both x <= left) the result is exactly the vertical segment at
\* x = left with the y values of tmp in input order; wholly to the right (both
\* x >= right) it is empty if can_cull_to_the_right and otherwise the vertical
\* segment at x = right with those y values.
C6_PinnedToEdge ==
    (pc = "clip_done"
        /\ ~FullyAbove(src, clip_rect) /\ ~FullyBelow(src, clip_rect))
    => /\ (tmp[0].x <= clip_rect.left /\ tmp[1].x <= clip_rect.left)
            => points = VerticalAt(clip_rect.left, tmp)
       /\ (tmp[0].x >= clip_rect.right /\ tmp[1].x >= clip_rect.right)
            => points = IF can_cull_to_the_right
                        THEN EmptySlice
                        ELSE VerticalAt(clip_rect.right, tmp)

\* C6 witness: the input reaches into the rectangle's x range, but the part
\* left after the chop in y lies wholly to the left; it was given from larger
\* x to smaller x.
C6_Witness ==
    /\ pc = "clip_done"
    /\ ~FullyAbove(src, clip_rect) /\ ~FullyBelow(src, clip_rect)
    /\ src[0].x > clip_rect.left
    /\ tmp[0].x <= clip_rect.left /\ tmp[1].x <= clip_rect.left
    /\ tmp[0].y # tmp[1].y
    /\ points = VerticalAt(clip_rect.left, tmp)

-----------------------------------------------------------------------------
(* int_size.rs *)

\* LengthU32::new (a non-zero u32): None for 0
LengthU32_new(v) == IF v = 0 THEN None ELSE Some(v)

\* LengthU32::get
LengthU32_get(l) == l

\* Mutant of IntSize_from_wh: only the width is checked.
IntSize_from_wh_WidthOnly(w, h) ==
    IF LengthU32_new(w) = None
    THEN None
    ELSE Some([width |-> w, height |-> h])

\* IntSize::from_wh; each `?` returns None early
IntSize_from_wh(w, h) ==
    IF LengthU32_new(w) = None
    THEN None
    ELSE IF LengthU32_new(h) = None
    THEN None
    ELSE Some([width |-> Unwrap(LengthU32_new(w)),
               height |-> Unwrap(LengthU32_new(h))])

\* IntSize::width, IntSize::height
IntSize_width(self) == LengthU32_get(self.width)
IntSize_height(self) == LengthU32_get(self.height)

Lengths == 0..MaxLen

InitSize ==
    /\ pc = "from_wh_call"
    /\ width \in Lengths
    /\ height \in Lengths
    /\ size = None
    /\ ClipIdle /\ GradIdle

FromWh ==
    /\ pc = "from_wh_call"
    /\ pc' = "from_wh_done"
    /\ size' = IntSize_from_wh(width, height)
    /\ UNCHANGED <<width, height, clipVars, gradVars>>

NextSize == FromWh

SpecSize == InitSize /\ [][NextSize]_vars

\* C5: from_wh(width, height) returns None if and only if width is 0 or
\* height is 0; otherwise it returns a size whose width() and height() equal
\* the arguments, so every IntSize that exists has both dimensions non-zero.
\* The call always returns (a value or None).
C5_FromWhNoneIffZero ==
    pc = "from_wh_done" =>
        /\ size = None <=> (width = 0 \/ height = 0)
        /\ size # None =>
            /\ IntSize_width(Unwrap(size)) = width
            /\ IntSize_height(Unwrap(size)) = height
            /\ IntSize_width(Unwrap(size)) > 0
            /\ IntSize_height(Unwrap(size)) > 0

\* C5 witness: a call with a non-zero width and a zero height has returned
\* None.
C5_Witness ==
    /\ pc = "from_wh_done"
    /\ width > 0 /\ height = 0
    /\ size = None

-----------------------------------------------------------------------------
(* shaders/gradient.rs: Gradient::new *)

\* 1.0 in model units (SCALAR_NEARLY_ZERO is 1/4096)
One == 4096 * SCALAR_NEARLY_ZERO

Min(a, b) == IF a < b THEN a ELSE b
Max(a, b) == IF a > b THEN a ELSE b

\* Scalar::bound: max.min(self).max(min)
bound(self, min, max) == Max(Min(max, self), min)

\* Scalar::is_nearly_equal
is_nearly_equal(a, b) == Abs(a - b) <= SCALAR_NEARLY_ZERO

\* NormalizedF32::new_bounded: clamped to 0..1
NormalizedF32_new_bounded(v) == bound(v, 0, One)

\* Color::is_opaque
is_opaque(c) == c.a = One

\* Vec<T>, 0-based
VecLen(v) == Cardinality(DOMAIN v)
VecPush(v, e) == [i \in 0..VecLen(v) |-> IF i < VecLen(v) THEN v[i] ELSE e]
VecInsert0(v, e) == [i \in 0..VecLen(v) |-> IF i = 0 THEN e ELSE v[i - 1]]

\* GradientStop::new
GradientStop_new(position, color) ==
    [position |-> NormalizedF32_new_bounded(position), color |-> color]

\* lines 63-73: the stops with the dummy first and last entries added
WithDummies(pts) ==
    LET dummy_first == pts[0].position # 0
        dummy_last == pts[VecLen(pts) - 1].position # One
        p1 == IF dummy_first
              THEN VecInsert0(pts, GradientStop_new(0, pts[0].color))
              ELSE pts
    IN  IF dummy_last
        THEN VecPush(p1, GradientStop_new(One, p1[VecLen(p1) - 1].color))
        ELSE p1

\* Mutant of CurrPosition: the position is not bounded below by the previous
\* one.
CurrPosition_NoLowerBound(pts, i, prev) ==
    IF i + 1 = VecLen(pts)
    THEN One
    ELSE bound(pts[i].position, 0, One)

\* lines 83-88: the position of stop i, given the previous position
CurrPosition(pts, i, prev) ==
    IF i + 1 = VecLen(pts)
    THEN One
    ELSE bound(pts[i].position, prev, One)

\* lines 82-93: the loop from index i on; acc is (points, prev,
\* has_uniform_stops)
RECURSIVE PinLoop(_, _, _)
PinLoop(acc, i, uniform_step) ==
    IF i >= VecLen(acc.points)
    THEN acc
    ELSE LET curr == CurrPosition(acc.points, i, acc.prev)
         IN  PinLoop(
                 [points |-> [acc.points EXCEPT
                                 ![i].position = NormalizedF32_new_bounded(curr)],
                  prev |-> curr,
                  has_uniform_stops |->
                      acc.has_uniform_stops
                          /\ is_nearly_equal(uniform_step, curr - acc.prev)],
                 i + 1, uniform_step)

\* Gradient::new (the two transforms are stored unchanged and left out)
Gradient_new(pts, mode) ==
    LET dummy_first == pts[0].position # 0
        pts2 == WithDummies(pts)
        colors_are_opaque == \A i \in DOMAIN pts2 : is_opaque(pts2[i].color)
        start_index == IF dummy_first THEN 0 ELSE 1
        prev == 0
        uniform_step == pts2[start_index].position - prev
        done == PinLoop([points |-> pts2, prev |-> prev,
                         has_uniform_stops |-> TRUE],
                        start_index, uniform_step)
    IN  [points |-> done.points,
         tile_mode |-> mode,
         colors_are_opaque |-> colors_are_opaque,
         has_uniform_stops |-> done.has_uniform_stops]

-----------------------------------------------------------------------------
(* shaders/gradient.rs: Gradient::append_stages *)

\* Fixed-point product and quotient of two values in model units.  The
\* product is split so that no intermediate value leaves 32 bits.
FMul(a, b) == (a \div One) * b + RoundDiv((a % One) * b, One)
FDiv(a, b) == RoundDiv(a * One, b)

\* GradientColor::new, GradientColor::from(Color), GradientColor::default
GradientColor_new(r, g, b, a) == [r |-> r, g |-> g, b |-> b, a |-> a]
GradientColor_from(c) == GradientColor_new(c.r, c.g, c.b, c.a)
GradientColor_default == GradientColor_new(0, 0, 0, 0)

\* GradientCtx::default.  The three Vecs of a GradientCtx are only pushed to
\* and measured, and are sequences here.
GradientCtx_default ==
    [factors |-> << >>, biases |-> << >>, t_values |-> << >>, len |-> 0]

\* GradientCtx::push_const_color: a zero factor and the color as bias
push_const_color(c, color) ==
    [c EXCEPT !.factors = Append(@, GradientColor_new(0, 0, 0, 0)),
              !.biases = Append(@, color)]

\* Mutant of TilingStages: Pad pushes the clamp stage whatever the stops are.
TilingStages_AlwaysPad(self) ==
    CASE self.tile_mode = "Reflect" -> <<"ReflectX1">>
      [] self.tile_mode = "Repeat" -> <<"RepeatX1">>
      [] self.tile_mode = "Pad" -> <<"PadX1">>

\* lines 116-132: the tiling stage pushed for the spread mode, if any
TilingStages(self) ==
    CASE self.tile_mode = "Reflect" -> <<"ReflectX1">>
      [] self.tile_mode = "Repeat" -> <<"RepeatX1">>
      [] self.tile_mode = "Pad" ->
            IF self.has_uniform_stops THEN <<"PadX1">> ELSE << >>

\* Mutant of TwoStopCtx: the factor is taken as first minus second color.
TwoStopCtx_FactorSwapped(self) ==
    LET c0 == self.points[0].color
        c1 == self.points[1].color
    IN  [factor |-> GradientColor_new(c0.r - c1.r, c0.g - c1.g,
                                      c0.b - c1.b, c0.a - c1.a),
         bias |-> GradientColor_from(c0)]

\* lines 138-149: EvenlySpaced2StopGradientCtx of the two-stop case
TwoStopCtx(self) ==
    LET c0 == self.points[0].color
        c1 == self.points[1].color
    IN  [factor |-> GradientColor_new(c1.r - c0.r, c1.g - c0.g,
                                      c1.b - c0.b, c1.a - c0.a),
         bias |-> GradientColor_from(c0)]

\* lines 171-183: (first_stop, last_stop), the dummy stops removed
FirstLastStop(self) ==
    LET len == VecLen(self.points)
    IN  IF len > 2
        THEN <<IF self.points[0].color # self.points[1].color THEN 0 ELSE 1,
               IF self.points[len - 2].color # self.points[len - 1].color
               THEN len - 1 ELSE len - 2>>
        ELSE <<0, 1>>

\* lines 197-202: the scale factor F of the interval from (t_l, c_l) to
\* (t_r, c_r)
IntervalFactor(c_l, c_r, t_l, t_r) ==
    GradientColor_new(FDiv(c_r.r - c_l.r, t_r - t_l),
                      FDiv(c_r.g - c_l.g, t_r - t_l),
                      FDiv(c_r.b - c_l.b, t_r - t_l),
                      FDiv(c_r.a - c_l.a, t_r - t_l))

\* lines 205-212: the bias B of that interval
IntervalBias(c_l, f, t_l) ==
    GradientColor_new(c_l.r - FMul(f.r, t_l),
                      c_l.g - FMul(f.g, t_l),
                      c_l.b - FMul(f.b, t_l),
                      c_l.a - FMul(f.a, t_l))

\* lines 203-214: the three pushes of one interval
PushInterval(c, f, c_l, t_l) ==
    [c EXCEPT !.factors = Append(@, f),
              !.biases = Append(@, IntervalBias(c_l, f, t_l)),
              !.t_values = Append(@, NormalizedF32_new_bounded(t_l))]

\* lines 191-218: one round of the loop, for the stop at i + 1; acc is
\* (ctx, t_l, c_l, ok), ok being the debug_assert!(t_l <= t_r) of every round
StopRound(acc, t_r, c_r) ==
    [ctx |-> IF acc.t_l < t_r
             THEN PushInterval(acc.ctx,
                               IntervalFactor(acc.c_l, c_r, acc.t_l, t_r),
                               acc.c_l, acc.t_l)
             ELSE acc.ctx,
     t_l |-> t_r,
     c_l |-> c_r,
     ok |-> acc.ok /\ acc.t_l <= t_r]

\* lines 190-219: the loop over the stops from i to last_stop - 1
RECURSIVE StopLoop(_, _, _, _)
StopLoop(self, acc, i, last_stop) ==
    IF i >= last_stop
    THEN acc
    ELSE StopLoop(self,
                  StopRound(acc, self.points[i + 1].position,
                            GradientColor_from(self.points[i + 1].color)),
                  i + 1, last_stop)

\* Mutant of PadTo16: only the factors are padded.
PadTo16_FactorsOnly(c) ==
    LET missing == IF Len(c.factors) < 16 THEN 16 - Len(c.factors) ELSE 0
        zeros == [i \in 1..missing |-> GradientColor_default]
    IN  [c EXCEPT !.factors = @ \o zeros]

\* lines 230-234: zeros until factors holds 16 entries
PadTo16(c) ==
    LET missing == IF Len(c.factors) < 16 THEN 16 - Len(c.factors) ELSE 0
        zeros == [i \in 1..missing |-> GradientColor_default]
    IN  [c EXCEPT !.factors = @ \o zeros, !.biases = @ \o zeros]

\* lines 185-188: the context before the loop
StartCtx(t_l, c_l) ==
    [ctx |-> [push_const_color(GradientCtx_default, c_l) EXCEPT
                 !.t_values = Append(@, 0)],
     t_l |-> t_l, c_l |-> c_l, ok |-> TRUE]

\* line 224: ctx.len = ctx.factors.len()
SetLen(c) == [c EXCEPT !.len = Len(c.factors)]

\* lines 221-224: the last constant color, the last t value and ctx.len
FinishCtx(acc) ==
    SetLen([push_const_color(acc.ctx, acc.c_l) EXCEPT
               !.t_values = Append(@, NormalizedF32_new_bounded(acc.t_l))])

\* lines 226-234: the two debug_assert_eq, then the padding
CheckAndPad(c, ok) ==
    [ctx |-> PadTo16(c),
     asserts |-> /\ ok
                 /\ Len(c.factors) = Len(c.t_values)
                 /\ Len(c.biases) = Len(c.t_values)]

\* lines 185-224: the context of the general case before the padding, with
\* the loop's debug_assert
UnpaddedCtx(self) ==
    LET first_stop == FirstLastStop(self)[1]
        last_stop == FirstLastStop(self)[2]
        looped == StopLoop(self,
                           StartCtx(self.points[first_stop].position,
                                    GradientColor_from(self.points[first_stop].color)),
                           first_stop, last_stop)
    IN  [ctx |-> FinishCtx(looped), ok |-> looped.ok]

\* lines 157-234: the context of the general case and whether its
\* debug_asserts held
GeneralCtx(self) ==
    CheckAndPad(UnpaddedCtx(self).ctx, UnpaddedCtx(self).ok)

\* lines 134-238: the color stage, its context, and whether the
\* debug_asserts on the way held
ColorStage(self) ==
    IF VecLen(self.points) = 2
    THEN [stage |-> "EvenlySpaced2StopGradient",
          ctx |-> TwoStopCtx(self),
          asserts |-> self.has_uniform_stops]
    ELSE LET general == GeneralCtx(self)
         IN  [stage |-> "Gradient",
              ctx |-> general.ctx,
              asserts |-> general.asserts]

\* Mutant of PremultiplyStages: the test of colors_are_opaque is inverted.
PremultiplyStages_WhenOpaque(self) ==
    IF self.colors_are_opaque THEN <<"Premultiply">> ELSE << >>

\* lines 240-242
PremultiplyStages(self) ==
    IF ~self.colors_are_opaque THEN <<"Premultiply">> ELSE << >>

\* Gradient::append_stages.  transform is what push_transform pushes for
\* self.points_to_unit; callback.pre and callback.post are what push_stages
\* pushes onto rec.pipeline and onto post_pipeline.
append_stages(self, transform, callback) ==
    LET color == ColorStage(self)
    IN  [pipeline |-> <<"SeedShader">> \o transform \o callback.pre
                        \o TilingStages(self)
                        \o <<color.stage>>
                        \o PremultiplyStages(self)
                        \o callback.post,
         ctx |-> color.ctx,
         asserts |-> color.asserts]

-----------------------------------------------------------------------------
(* The gradient as a state machine: Gradient::new with arbitrary stops,    *)
(* then append_stages with an arbitrary callback.                          *)

\* Positions given by the caller: 0, 1/2, 1, and two values just above 1/2,
\* one within SCALAR_NEARLY_ZERO of it and one not
Positions ==
    {0, One \div 2, One \div 2 + 1, One \div 2 + 3, One}

\* Colors given by the caller: two opaque ones and a translucent one
Colors ==
    {[r |-> One, g |-> 0, b |-> 0, a |-> One],
     [r |-> 0, g |-> 0, b |-> One, a |-> One],
     [r |-> 0, g |-> One, b |-> 0, a |-> One \div 2]}

SpreadModes == {"Pad", "Reflect", "Repeat"}

ShortStopLists ==
    UNION {[0..(n - 1) -> [position : Positions, color : Colors]] :
             n \in 2..MaxStops}

\* n stops evenly spaced from 0 to 1, colored c and d in turn
EvenStopList(n, c, d) ==
    [i \in 0..(n - 1) |->
        [position |-> (i * One) \div (n - 1),
         color |-> IF i % 2 = 0 THEN c ELSE d]]

LongStopLists ==
    {EvenStopList(n, c, d) :
        n \in (LongStops - 2)..LongStops, c \in Colors, d \in Colors}

StopLists == ShortStopLists \cup LongStopLists

\* What push_transform can push, and what the callback can push
TransformStages == {<< >>, <<"Transform">>}
Callbacks ==
    {[pre |-> << >>, post |-> << >>],
     [pre |-> <<"XYToRadius">>, post |-> <<"PostStage">>]}

InitGradient ==
    /\ pc = "new_call"
    /\ stops \in StopLists
    /\ tile_mode \in SpreadModes
    /\ points_to_unit \in TransformStages
    /\ gradient = None
    /\ push_stages = None
    /\ pipeline = << >>
    /\ ctx = None
    /\ asserts_hold = TRUE
    /\ ClipIdle /\ SizeIdle

New ==
    /\ pc = "new_call"
    /\ pc' = "constructed"
    /\ gradient' = Gradient_new(stops, tile_mode)
    /\ UNCHANGED <<stops, tile_mode, points_to_unit, push_stages, pipeline,
                   ctx, asserts_hold, clipVars, sizeVars>>

AppendStages ==
    /\ pc = "constructed"
    /\ pc' = "appended"
    /\ \E cb \in Callbacks :
        LET rec == append_stages(gradient, points_to_unit, cb)
        IN  /\ push_stages' = cb
            /\ pipeline' = rec.pipeline
            /\ ctx' = rec.ctx
            /\ asserts_hold' = (asserts_hold /\ rec.asserts)
    /\ UNCHANGED <<stops, tile_mode, points_to_unit, gradient,
                   clipVars, sizeVars>>

NextGradient == New \/ AppendStages

SpecGradient == InitGradient /\ [][NextGradient]_vars

-----------------------------------------------------------------------------
(* Properties of Gradient::new *)

Constructed == pc \in {"constructed", "appended"}

\* C4: after construction the stored stops have first position exactly 0.0,
\* last position exactly 1.0, and positions non-decreasing from each stop to
\* the next, for every stop list with at least 2 entries.
C4_StopsNormalized ==
    Constructed =>
        LET pts == gradient.points
            len == VecLen(pts)
        IN  /\ len >= 2
            /\ pts[0].position = 0
            /\ pts[len - 1].position = One
            /\ \A i \in 0..(len - 2) : pts[i].position <= pts[i + 1].position

\* C4 witness: a gradient built from stops given in decreasing order, the
\* first not at 0 and the last not at 1.
C4_Witness ==
    /\ Constructed
    /\ stops[0].position # 0
    /\ stops[VecLen(stops) - 1].position # One
    /\ \E i \in 0..(VecLen(stops) - 2) :
          stops[i].position > stops[i + 1].position

\* Every gap between consecutive positions equals the first gap within the
\* tolerance.
UniformGaps(pts) ==
    \A i \in 1..(VecLen(pts) - 1) :
        is_nearly_equal(pts[1].position - pts[0].position,
                        pts[i].position - pts[i - 1].position)

\* C7: has_uniform_stops is true exactly when every gap between consecutive
\* positions of the normalized stop list (synthetic stops included) equals
\* the first gap within the tolerance, also for inputs whose first position
\* is not 0.
C7_UniformFlagExact ==
    Constructed =>
        (gradient.has_uniform_stops <=> UniformGaps(gradient.points))

-----------------------------------------------------------------------------
(* Properties of Gradient::append_stages *)

TilingStageNames == {"ReflectX1", "RepeatX1", "PadX1"}
ColorStageNames == {"EvenlySpaced2StopGradient", "Gradient"}

IsTilingStage(st) == st \in TilingStageNames
IsColorStage(st) == st \in ColorStageNames

StagesOf(pl) == {pl[i] : i \in DOMAIN pl}

ColorIndex(pl) ==
    IF \E i \in DOMAIN pl : IsColorStage(pl[i])
    THEN CHOOSE i \in DOMAIN pl :
            /\ IsColorStage(pl[i])
            /\ \A j \in 1..(i - 1) : ~IsColorStage(pl[j])
    ELSE 0

SomeStopNotOpaque(g) ==
    \E i \in DOMAIN g.points : g.points[i].color.a # One

\* C9: a Premultiply stage is present if and only if at least one stop of
\* the constructed gradient is non-opaque; when present it comes immediately
\* after the single color-producing stage and before every stage of the post
\* pipeline; and the stages up to the color stage are, for every gradient,
\* SeedShader, the transform, the caller-pushed stages, at most one tiling
\* stage, the color stage.
C9_PremultiplyPlacement ==
    pc = "appended" =>
        LET k == ColorIndex(pipeline)
            head == <<"SeedShader">> \o points_to_unit \o push_stages.pre
            between == SubSeq(pipeline, Len(head) + 1, k - 1)
            tail == SubSeq(pipeline, k + 1, Len(pipeline))
        IN  /\ Len(SelectSeq(pipeline, IsColorStage)) = 1
            /\ "Premultiply" \in StagesOf(pipeline) <=> SomeStopNotOpaque(gradient)
            /\ k > Len(head)
            /\ SubSeq(pipeline, 1, Len(head)) = head
            /\ Len(between) <= 1
            /\ \A i \in DOMAIN between : IsTilingStage(between[i])
            /\ tail = IF SomeStopNotOpaque(gradient)
                      THEN <<"Premultiply">> \o push_stages.post
                      ELSE push_stages.post

\* C9 witness: a gradient with a non-opaque stop, a callback that pushes
\* post stages, and a Premultiply stage in the appended pipeline.
C9_Witness ==
    /\ pc = "appended"
    /\ SomeStopNotOpaque(gradient)
    /\ push_stages.post # << >>
    /\ "Premultiply" \in StagesOf(pipeline)

\* The color the EvenlySpaced2StopGradient stage computes at t: bias + factor*t
Eval2Stop(c, t) ==
    [r |-> c.bias.r + FMul(c.factor.r, t),
     g |-> c.bias.g + FMul(c.factor.g, t),
     b |-> c.bias.b + FMul(c.factor.b, t),
     a |-> c.bias.a + FMul(c.factor.a, t)]

\* C10: for every constructed gradient that holds exactly two stops,
\* has_uniform_stops is true, append_stages takes the closed-form path and its
\* assertion holds; the pushed context has bias equal to the first stop's
\* color and factor equal to the per-channel difference second color minus
\* first color, so bias + factor*t is the first color at t = 0 and the second
\* color at t = 1.
C10_TwoStopClosedForm ==
    (Constructed /\ VecLen(gradient.points) = 2) =>
        /\ gradient.has_uniform_stops
        /\ pc = "appended" =>
            LET c0 == gradient.points[0].color
                c1 == gradient.points[1].color
            IN  /\ asserts_hold
                /\ SelectSeq(pipeline, IsColorStage)
                      = <<"EvenlySpaced2StopGradient">>
                /\ ctx.bias = c0
                /\ ctx.factor = [r |-> c1.r - c0.r, g |-> c1.g - c0.g,
                                 b |-> c1.b - c0.b, a |-> c1.a - c0.a]
                /\ Eval2Stop(ctx, 0) = c0
                /\ Eval2Stop(ctx, One) = c1

\* C10 witness: a two-stop gradient from a first color to a different second
\* color has had its stages appended.
C10_Witness ==
    /\ pc = "appended"
    /\ VecLen(gradient.points) = 2
    /\ gradient.points[0].color # gradient.points[1].color
    /\ "EvenlySpaced2StopGradient" \in StagesOf(pipeline)

\* C11: in the general path, for every gradient with 3 or more stops: before
\* the padding the factor, bias and t-value arrays have the same length (both
\* equality assertions hold), that length is recorded as ctx.len and is at
\* least 2 and at most the number of stops plus 1; after the padding the
\* factor and bias arrays have length max(ctx.len, 16), so never fewer than 16
\* entries.
C11_GeneralCtxLengths ==
    (pc = "appended" /\ VecLen(gradient.points) >= 3) =>
        LET before == UnpaddedCtx(gradient).ctx
        IN  /\ asserts_hold
            /\ SelectSeq(pipeline, IsColorStage) = <<"Gradient">>
            /\ Len(before.factors) = Len(before.t_values)
            /\ Len(before.biases) = Len(before.t_values)
            /\ ctx.len = Len(before.factors)
            /\ ctx.t_values = before.t_values
            /\ ctx.len >= 2
            /\ ctx.len <= VecLen(gradient.points) + 1
            /\ Len(ctx.factors) = Max(ctx.len, 16)
            /\ Len(ctx.biases) = Max(ctx.len, 16)
            /\ SubSeq(ctx.factors, 1, ctx.len) = before.factors
            /\ SubSeq(ctx.biases, 1, ctx.len) = before.biases

\* C11 witness: a gradient whose context holds more than 16 entries, so that
\* the padding adds none.
C11_Witness ==
    /\ pc = "appended"
    /\ VecLen(gradient.points) >= 3
    /\ ctx.len > 16
    /\ Len(ctx.factors) = ctx.len

-----------------------------------------------------------------------------
(* The order in which line_clipper::clip emits the sub-segments *)

\* The call reached the branch for a segment that straddles the clip in X:
\* not rejected in Y, and the y-chopped part neither wholly to the left nor
\* wholly to the right.
StraddlesInX ==
    /\ pc = "clip_done"
    /\ ~FullyAbove(src, clip_rect) /\ ~FullyBelow(src, clip_rect)
    /\ ~(tmp[0].x <= clip_rect.left /\ tmp[1].x <= clip_rect.left)
    /\ ~(tmp[0].x >= clip_rect.right /\ tmp[1].x >= clip_rect.right)

\* The sub-segments as computed, from the end with the smaller x to the end
\* with the larger x (result_storage[0..=line_count])
Computed == ChopStraddling(src, tmp, clip_rect)

\* C12 as stated: the sub-segments of a segment that straddles the rectangle
\* in x are emitted in reversed order if and only if the higher-y endpoint of
\* the input was its start point src[0].
C12_ReversedIffStartHigherY ==
    StraddlesInX => (reversed <=> src[0].y > src[1].y)

\* C12 amended: the sub-segments of a segment that straddles the rectangle in
\* x are computed from its smaller-x end to its larger-x end and are emitted
\* in reversed order if and only if src[0].x >= src[1].x (not src[0].x <
\* src[1].x): the decision depends on the x-order of the two input endpoints.
C12_ReversedIffStartNotLeft ==
    StraddlesInX =>
        /\ reversed <=> src[0].x >= src[1].x
        /\ \A i \in 0..(Computed.line_count - 1) :
              Computed.result[i].x <= Computed.result[i + 1].x
        /\ NumPoints(points) = Computed.line_count + 1
        /\ \A i \in DOMAIN points :
              points[i] = IF src[0].x >= src[1].x
                          THEN Computed.result[Computed.line_count - i]
                          ELSE Computed.result[i]

\* C12 witness: a straddling segment whose start is the higher-y endpoint and
\* also the smaller-x one: three sub-segments, emitted in the order computed.
C12_Witness ==
    /\ StraddlesInX
    /\ src[0].y > src[1].y
    /\ src[0].x < src[1].x
    /\ ~reversed
    /\ NumPoints(points) = 4
    /\ points[0].x < points[3].x

=============================================================================
